---------------------------- MODULE Spec2Model ----------------------------
(***************************************************************************)
(* Model of app.py: the Telegram handlers handle_message,                  *)
(* download_command, button_callback, start, help_command and              *)
(* platforms_command, the pipeline process_url and the classifier          *)
(* extract_url_info.                                                       *)
(*                                                                         *)
(* Python strings that the code inspects character by character (URLs,     *)
(* message texts, callback data, response bodies) are sequences of         *)
(* one-character strings; labels that the code only passes around are      *)
(* TLA+ strings.  Emoji of the labels are left out.                        *)
(***************************************************************************)
EXTENDS Integers, Sequences, FiniteSets, TLC

(***************************************************************************)
(* Python string operations used by the code                               *)
(***************************************************************************)

\* s[:n]
Take(s, n) == SubSeq(s, 1, IF Len(s) < n THEN Len(s) ELSE n)

\* s[n:]
Drop(s, n) == SubSeq(s, n + 1, Len(s))

\* s[i-1:j], which stops at the end of s
Slice(s, i, j) == SubSeq(s, i, IF Len(s) < j THEN Len(s) ELSE j)

\* s.startswith(p)
startswith(s, p) == Len(p) <= Len(s) /\ SubSeq(s, 1, Len(p)) = p

\* p in s, for two strings: p occurs in s as a contiguous run
IsIn(p, s) == \E i \in 1..(Len(s) - Len(p) + 1) : SubSeq(s, i, i + Len(p) - 1) = p

\* c in s, for a character c
HasChar(c, s) == \E i \in 1..Len(s) : s[i] = c

UpperCase == <<"A","B","C","D","E","F","G","H","I","J","K","L","M","N","O","P","Q","R","S","T","U","V","W","X","Y","Z">>

LowerCase == <<"a","b","c","d","e","f","g","h","i","j","k","l","m","n","o","p","q","r","s","t","u","v","w","x","y","z">>

Digits == <<"0","1","2","3","4","5","6","7","8","9">>

LowerChar(c) == IF \E i \in 1..26 : UpperCase[i] = c THEN LowerCase[CHOOSE i \in 1..26 : UpperCase[i] = c] ELSE c

\* s.lower()
lower(s) == [i \in 1..Len(s) |-> LowerChar(s[i])]

\* str(n) for an integer n >= 0
RECURSIVE str(_)
str(n) == IF n < 10 THEN <<Digits[n + 1]>> ELSE str(n \div 10) \o <<Digits[(n % 10) + 1]>>

\* ' '.join(args)
RECURSIVE join(_)
join(args) == IF Len(args) = 0 THEN <<>> ELSE IF Len(args) = 1 THEN args[1] ELSE args[1] \o <<" ">> \o join(Tail(args))

\* the characters the regular expression class \s matches
Whitespace == {" ", "\t", "\n", "\r", "\f"}

(***************************************************************************)
(* Configuration                                                           *)
(***************************************************************************)

API_URL == "https://socialdownloder2.anshapi.workers.dev/"

TIMEOUT == 30

PLATFORMS == [youtube |-> "YouTube", instagram |-> "Instagram", facebook |-> "Facebook", twitter |-> "Twitter/X", tiktok |-> "TikTok", snapchat |-> "Snapchat", pinterest |-> "Pinterest", linkedin |-> "LinkedIn", reddit |-> "Reddit", threads |-> "Threads", rumble |-> "Rumble", twitch |-> "Twitch", dailymotion |-> "Dailymotion", vimeo |-> "Vimeo"]

\* the dict of extract_url_info, in insertion order (the order a Python dict iterates in)
domain_map == <<
  [key |-> <<"y", "o", "u", "t", "u", "b", "e", ".", "c", "o", "m">>, platform |-> "youtube"],
  [key |-> <<"y", "o", "u", "t", "u", ".", "b", "e">>, platform |-> "youtube"],
  [key |-> <<"i", "n", "s", "t", "a", "g", "r", "a", "m", ".", "c", "o", "m">>, platform |-> "instagram"],
  [key |-> <<"f", "b", ".", "w", "a", "t", "c", "h">>, platform |-> "facebook"],
  [key |-> <<"f", "a", "c", "e", "b", "o", "o", "k", ".", "c", "o", "m">>, platform |-> "facebook"],
  [key |-> <<"t", "w", "i", "t", "t", "e", "r", ".", "c", "o", "m">>, platform |-> "twitter"],
  [key |-> <<"x", ".", "c", "o", "m">>, platform |-> "twitter"],
  [key |-> <<"t", "i", "k", "t", "o", "k", ".", "c", "o", "m">>, platform |-> "tiktok"],
  [key |-> <<"s", "n", "a", "p", "c", "h", "a", "t", ".", "c", "o", "m">>, platform |-> "snapchat"],
  [key |-> <<"p", "i", "n", "t", "e", "r", "e", "s", "t", ".", "c", "o", "m">>, platform |-> "pinterest"],
  [key |-> <<"l", "i", "n", "k", "e", "d", "i", "n", ".", "c", "o", "m">>, platform |-> "linkedin"],
  [key |-> <<"r", "e", "d", "d", "i", "t", ".", "c", "o", "m">>, platform |-> "reddit"],
  [key |-> <<"t", "h", "r", "e", "a", "d", "s", ".", "n", "e", "t">>, platform |-> "threads"],
  [key |-> <<"r", "u", "m", "b", "l", "e", ".", "c", "o", "m">>, platform |-> "rumble"],
  [key |-> <<"t", "w", "i", "t", "c", "h", ".", "t", "v">>, platform |-> "twitch"],
  [key |-> <<"d", "a", "i", "l", "y", "m", "o", "t", "i", "o", "n", ".", "c", "o", "m">>, platform |-> "dailymotion"],
  [key |-> <<"v", "i", "m", "e", "o", ".", "c", "o", "m">>, platform |-> "vimeo"] >>

(***************************************************************************)
(* urlparse(url).netloc, as urllib.parse.urlsplit computes it.  The URLs   *)
(* that reach it come from re.findall (no whitespace) or from              *)
(* ' '.join(context.args) (no leading space, no tab or newline), so the    *)
(* stripping of leading blanks and of tab/CR/LF does nothing to them.      *)
(***************************************************************************)

scheme_chars == {LowerCase[i] : i \in 1..26} \cup {UpperCase[i] : i \in 1..26} \cup {Digits[i] : i \in 1..10} \cup {"+", "-", "."}

\* s.find(c): the first 1-based position of c in s, 0 when c is not in s
find(s, c) == IF HasChar(c, s) THEN CHOOSE i \in 1..Len(s) : s[i] = c /\ \A j \in 1..(i - 1) : s[j] # c ELSE 0

\* the url with its scheme and the colon removed, when it starts with one
AfterScheme(url) ==
  LET i == find(url, ":")
  IN  IF i > 1 /\ (url[1] \in {LowerCase[k] : k \in 1..26} \cup {UpperCase[k] : k \in 1..26}) /\ (\A j \in 1..(i - 1) : url[j] \in scheme_chars)
      THEN Drop(url, i)
      ELSE url

\* _splitnetloc(url, 2): from the third character to the first of / ? #
splitnetloc(rest) ==
  LET stops == {i \in 3..Len(rest) : rest[i] \in {"/", "?", "#"}}
      delim == IF stops = {} THEN Len(rest) + 1 ELSE CHOOSE i \in stops : \A j \in stops : i <= j
  IN  SubSeq(rest, 3, delim - 1)

netloc(url) ==
  LET rest == AfterScheme(url)
  IN  IF Take(rest, 2) = <<"/", "/">> THEN splitnetloc(rest) ELSE <<>>

\* urlsplit raises ValueError("Invalid IPv6 URL") on an unbalanced bracket
urlparse_raises(url) ==
  LET n == netloc(url)
  IN  (HasChar("[", n) /\ ~HasChar("]", n)) \/ (HasChar("]", n) /\ ~HasChar("[", n))

(***************************************************************************)
(* extract_url_info                                                        *)
(***************************************************************************)

\* the for loop over domain_map.items(), from entry i on
RECURSIVE domain_loop(_, _)
domain_loop(domain, i) ==
  IF i > Len(domain_map) THEN "unknown"
  ELSE IF IsIn(domain_map[i].key, domain) THEN domain_map[i].platform
  ELSE domain_loop(domain, i + 1)

extract_url_info(url) == domain_loop(lower(netloc(url)), 1)

(***************************************************************************)
(* re.findall(r'https?://[^\s]+', message_text)                            *)
(***************************************************************************)

\* the position after the prefix https?:// of a match attempt at i, 0 when it fails
scheme_end(text, i) ==
  IF Slice(text, i, i + 7) = <<"h", "t", "t", "p", "s", ":", "/", "/">> THEN i + 8
  ELSE IF Slice(text, i, i + 6) = <<"h", "t", "t", "p", ":", "/", "/">> THEN i + 7
  ELSE 0

\* the last position of the greedy run [^\s]+ that starts at j
RECURSIVE run_end(_, _)
run_end(text, j) == IF j < Len(text) /\ text[j + 1] \notin Whitespace THEN run_end(text, j + 1) ELSE j

\* the end of a match of https?://[^\s]* at i, which accepts a bare scheme
match_end_star(text, i) ==
  LET j == scheme_end(text, i)
  IN  IF j = 0 THEN 0
      ELSE IF j <= Len(text) /\ text[j] \notin Whitespace THEN run_end(text, j) ELSE j - 1

\* the end of the match that starts at i, 0 when the pattern does not match there
match_end(text, i) ==
  LET j == scheme_end(text, i)
  IN  IF j # 0 /\ j <= Len(text) /\ text[j] \notin Whitespace THEN run_end(text, j) ELSE 0

\* the non-overlapping matches from position pos on, left to right
RECURSIVE findall_from(_, _)
findall_from(text, pos) ==
  IF pos > Len(text) THEN <<>>
  ELSE LET e == match_end(text, pos)
       IN  IF e # 0 THEN <<SubSeq(text, pos, e)>> \o findall_from(text, e + 1)
           ELSE findall_from(text, pos + 1)

findall(text) == findall_from(text, 1)

(***************************************************************************)
(* Python values: the scalars a parsed JSON document holds, and the        *)
(* documents response.json() returns                                       *)
(***************************************************************************)

None == [t |-> "NoneType", s |-> <<>>, n |-> 0]

PyStr(s) == [t |-> "str", s |-> s, n |-> 0]

PyInt(n) == [t |-> "int", s |-> <<>>, n |-> n]

\* bool(v)
truthy(v) == (v.t = "str" /\ v.s # <<>>) \/ (v.t = "int" /\ v.n # 0)

\* a or b
Or(a, b) == IF truthy(a) THEN a ELSE b

NoFields == [k \in {} |-> None]

Doc(t, s, n, items, fields) == [t |-> t, s |-> s, n |-> n, items |-> items, fields |-> fields]

DictDoc(fields) == Doc("dict", <<>>, 0, <<>>, fields)

StrDoc(s) == Doc("str", s, 0, <<>>, NoFields)

IntDoc(n) == Doc("int", <<>>, n, <<>>, NoFields)

ListDoc(items) == Doc("list", <<>>, 0, items, NoFields)

NoneDoc == Doc("NoneType", <<>>, 0, <<>>, NoFields)

\* the body is not JSON: response.json() raises
NotJson == Doc("invalid", <<>>, 0, <<>>, NoFields)

NoExc == [type |-> "none", msg |-> <<>>]

Exc(type, msg) == [type |-> type, msg |-> msg]

\* key in data: TypeError unless data is a dict, a str or a list
in_raises(data) == data.t \notin {"dict", "str", "list"}

\* type(data).__name__
type_name(data) ==
  CASE data.t = "int" -> <<"i", "n", "t">>
    [] data.t = "NoneType" -> <<"N", "o", "n", "e", "T", "y", "p", "e">>
    [] data.t = "str" -> <<"s", "t", "r">>
    [] data.t = "list" -> <<"l", "i", "s", "t">>
    [] OTHER -> <<"d", "i", "c", "t">>

in_TypeError(data) == Exc("TypeError", <<"a", "r", "g", "u", "m", "e", "n", "t", " ", "o", "f", " ", "t", "y", "p", "e", " ", "'">> \o type_name(data) \o <<"'", " ", "i", "s", " ", "n", "o", "t", " ", "i", "t", "e", "r", "a", "b", "l", "e">>)

\* key in data
contains(key, data) ==
  CASE data.t = "dict" -> key \in DOMAIN data.fields
    [] data.t = "str" -> IsIn(key, data.s)
    [] data.t = "list" -> \E i \in 1..Len(data.items) : data.items[i] = PyStr(key)
    [] OTHER -> FALSE

\* data.get(key): AttributeError unless data is a dict
get_raises(data) == data.t # "dict"

get_AttributeError(data) == Exc("AttributeError", <<"'">> \o type_name(data) \o <<"'", " ", "o", "b", "j", "e", "c", "t", " ", "h", "a", "s", " ", "n", "o", " ", "a", "t", "t", "r", "i", "b", "u", "t", "e", " ", "'", "g", "e", "t", "'">>)

\* data.get(key)
get(data, key) == IF key \in DOMAIN data.fields THEN data.fields[key] ELSE None

(***************************************************************************)
(* Replies                                                                 *)
(***************************************************************************)

\* InlineKeyboardButton(text, url=url)
UrlButton(text, url) == [text |-> text, url |-> url, callback_data |-> None]

\* InlineKeyboardButton(text, callback_data=data)
CallbackButton(text, data) == [text |-> text, url |-> None, callback_data |-> PyStr(data)]

\* a message of the bot: its text (kind, with the values formatted into it) and its inline keyboard
Msg(kind, arg, label, markup) == [kind |-> kind, arg |-> arg, label |-> label, markup |-> markup]

\* f'retry_{url}'
retry_data(url) == <<"r", "e", "t", "r", "y", "_">> \o url

\* the keyboard with the two buttons the other way round
ready_keyboard_swapped(download_url, url) == <<CallbackButton("Try Another", retry_data(url)), UrlButton("Download Now", download_url)>>

\* the keyboard of the Download Ready reply
ready_keyboard(download_url, url) == <<UrlButton("Download Now", download_url), CallbackButton("Try Another", retry_data(url))>>

\* the keyboard of the welcome message
start_keyboard == <<
  CallbackButton("YouTube", <<"h", "e", "l", "p", "_", "y", "o", "u", "t", "u", "b", "e">>), CallbackButton("Instagram", <<"h", "e", "l", "p", "_", "i", "n", "s", "t", "a", "g", "r", "a", "m">>),
  CallbackButton("Facebook", <<"h", "e", "l", "p", "_", "f", "a", "c", "e", "b", "o", "o", "k">>), CallbackButton("Twitter/X", <<"h", "e", "l", "p", "_", "t", "w", "i", "t", "t", "e", "r">>),
  CallbackButton("TikTok", <<"h", "e", "l", "p", "_", "t", "i", "k", "t", "o", "k">>), CallbackButton("Snapchat", <<"h", "e", "l", "p", "_", "s", "n", "a", "p", "c", "h", "a", "t">>),
  CallbackButton("How to Use", <<"u", "s", "a", "g", "e", "_", "i", "n", "f", "o">>), CallbackButton("All Platforms", <<"a", "l", "l", "_", "p", "l", "a", "t", "f", "o", "r", "m", "s">>) >>

\* the platform keys of PLATFORMS as the characters callback data carries
platform_keys == <<
  [chars |-> <<"y", "o", "u", "t", "u", "b", "e">>, key |-> "youtube"], [chars |-> <<"i", "n", "s", "t", "a", "g", "r", "a", "m">>, key |-> "instagram"],
  [chars |-> <<"f", "a", "c", "e", "b", "o", "o", "k">>, key |-> "facebook"], [chars |-> <<"t", "w", "i", "t", "t", "e", "r">>, key |-> "twitter"],
  [chars |-> <<"t", "i", "k", "t", "o", "k">>, key |-> "tiktok"], [chars |-> <<"s", "n", "a", "p", "c", "h", "a", "t">>, key |-> "snapchat"],
  [chars |-> <<"p", "i", "n", "t", "e", "r", "e", "s", "t">>, key |-> "pinterest"], [chars |-> <<"l", "i", "n", "k", "e", "d", "i", "n">>, key |-> "linkedin"],
  [chars |-> <<"r", "e", "d", "d", "i", "t">>, key |-> "reddit"], [chars |-> <<"t", "h", "r", "e", "a", "d", "s">>, key |-> "threads"],
  [chars |-> <<"r", "u", "m", "b", "l", "e">>, key |-> "rumble"], [chars |-> <<"t", "w", "i", "t", "c", "h">>, key |-> "twitch"],
  [chars |-> <<"d", "a", "i", "l", "y", "m", "o", "t", "i", "o", "n">>, key |-> "dailymotion"], [chars |-> <<"v", "i", "m", "e", "o">>, key |-> "vimeo"] >>

\* PLATFORMS.get(platform, platform.title()) for the characters of callback data
platform_name(chars) ==
  IF \E i \in 1..Len(platform_keys) : platform_keys[i].chars = chars
  THEN PLATFORMS[platform_keys[CHOOSE i \in 1..Len(platform_keys) : platform_keys[i].chars = chars].key]
  ELSE "Title"

(***************************************************************************)
(* process_url, lines 198-232: what the code does with a response          *)
(***************************************************************************)

CANDIDATES == <<<<"u", "r", "l">>, <<"d", "o", "w", "n", "l", "o", "a", "d", "U", "r", "l">>, <<"v", "i", "d", "e", "o", "_", "u", "r", "l">>>>

PROCESSING_PREVIEW == 50

LINK_PREVIEW == 400

DIRECT_PREVIEW == 200

ERROR_PREVIEW == 100

\* only client and server errors are rejected
status_rejected_from_400(status_code) == status_code >= 400

\* response.status_code != 200
status_rejected(status_code) == status_code # 200

status_Exception(status_code) == Exc("Exception", <<"A", "P", "I", " ", "r", "e", "t", "u", "r", "n", "e", "d", " ", "s", "t", "a", "t", "u", "s", " ">> \o str(status_code))

\* 'url' in data or 'downloadUrl' in data or 'video_url' in data
has_candidate(data) == contains(CANDIDATES[1], data) \/ contains(CANDIDATES[2], data) \/ contains(CANDIDATES[3], data)

\* data.get('url') or data.get('downloadUrl') or data.get('video_url')
download_url(data) == Or(Or(get(data, CANDIDATES[1]), get(data, CANDIDATES[2])), get(data, CANDIDATES[3]))

NoMsg == Msg("none", <<>>, "", <<>>)

\* what lines 198-232 do: the exception they raise (NoExc when none), the
\* message processing_msg.edit_text shows and the message
\* update.message.reply_text sends (NoMsg when the call is not made)
Result(exc, edit, reply) == [exc |-> exc, edit |-> edit, reply |-> reply]

\* PLATFORMS.get(platform, platform.title())
platform_label(platform) == IF platform \in DOMAIN PLATFORMS THEN PLATFORMS[platform] ELSE "Title"

ready_message(platform, data, url) == Msg("download_ready", <<>>, platform_label(platform), ready_keyboard(download_url(data), url))

content_found == Msg("content_found", <<>>, "", <<>>)

download_link(text) == Msg("download_link", Take(text, LINK_PREVIEW), "", <<>>)

direct_download(text) == Msg("direct_download", Take(text, DIRECT_PREVIEW), "", <<>>)

interpret(response, platform, url) ==
  IF status_rejected(response.status_code) THEN Result(status_Exception(response.status_code), NoMsg, NoMsg)
  ELSE IF response.doc.t = "invalid" THEN Result(NoExc, direct_download(response.text), NoMsg)
  ELSE LET data == response.doc
       IN  IF in_raises(data) THEN Result(in_TypeError(data), NoMsg, NoMsg)
           ELSE IF has_candidate(data)
                THEN IF get_raises(data) THEN Result(get_AttributeError(data), NoMsg, NoMsg)
                     ELSE Result(NoExc, ready_message(platform, data, url), NoMsg)
                ELSE Result(NoExc, content_found, download_link(response.text))

\* the message of the except branch, lines 236-238
error_message(e) == Msg("error", Take(e.msg, ERROR_PREVIEW), "", <<>>)

\* the short circuit is never taken
unsupported_never(platform) == FALSE

\* platform == 'unknown'
unsupported(platform) == platform = "unknown"

unsupported_message == Msg("unsupported_platform", <<>>, "", <<>>)

processing_message(url) == Msg("processing", Take(url, PROCESSING_PREVIEW), "", <<>>)

send_valid_url_message == Msg("send_valid_url", <<>>, "", <<>>)

(***************************************************************************)
(* Inputs: the URLs, message texts, command arguments and API behaviours   *)
(* the model draws from                                                    *)
(***************************************************************************)

\* the length of the long response bodies, above LINK_PREVIEW
LongLen == 403

\* the number of padding characters of the long URL, which makes it longer than PROCESSING_PREVIEW
PadLen == 20

Repeat(c, n) == [i \in 1..n |-> c]

\* URLs with an http(s) scheme in lower case, as a message or a command can carry them
SchemeUrls == {
  <<"h", "t", "t", "p", "s", ":", "/", "/", "w", "w", "w", ".", "y", "o", "u", "t", "u", "b", "e", ".", "c", "o", "m", "/", "w", "a", "t", "c", "h", "?", "v", "=", "d", "Q", "w", "4", "w", "9", "W", "g", "X", "c", "Q">>,
  <<"h", "t", "t", "p", "s", ":", "/", "/", "y", "o", "u", "t", "u", ".", "b", "e", "/", "a", "b", "c">>,
  <<"h", "t", "t", "p", ":", "/", "/", "Y", "o", "u", "T", "u", "b", "e", ".", "C", "O", "M", "/", "x">>,
  <<"h", "t", "t", "p", "s", ":", "/", "/", "w", "w", "w", ".", "i", "n", "s", "t", "a", "g", "r", "a", "m", ".", "c", "o", "m", "/", "r", "e", "e", "l", "/", "1">>,
  <<"h", "t", "t", "p", "s", ":", "/", "/", "f", "b", ".", "w", "a", "t", "c", "h", "/", "x">>,
  <<"h", "t", "t", "p", "s", ":", "/", "/", "n", "e", "t", "f", "l", "i", "x", ".", "c", "o", "m", "/", "t", "i", "t", "l", "e">>,
  <<"h", "t", "t", "p", "s", ":", "/", "/", "x", ".", "c", "o", "m", "/", "u", "/", "s", "t", "a", "t", "u", "s", "/", "1">>,
  <<"h", "t", "t", "p", "s", ":", "/", "/", "i", "n", "s", "t", "a", "g", "r", "a", "m", ".", "c", "o", "m", ".", "t", "i", "k", "t", "o", "k", ".", "c", "o", "m", "/">>,
  <<"h", "t", "t", "p", "s", ":", "/", "/", "t", "i", "k", "t", "o", "k", ".", "c", "o", "m", ".", "y", "o", "u", "t", "u", "b", "e", ".", "c", "o", "m", "/">>,
  <<"h", "t", "t", "p", "s", ":", "/", "/", "u", "n", "k", "n", "o", "w", "n", "-", "v", "i", "d", "e", "o", "-", "s", "i", "t", "e", ".", "e", "x", "a", "m", "p", "l", "e", "/", "v">>,
  <<"h", "t", "t", "p", "s", ":", "/", "/", "y", "o", "u", "t", "u", "b", "e", ".", "c", "o", "m", "@", "e", "x", "a", "m", "p", "l", "e", ".", "o", "r", "g", "/">>,
  <<"h", "t", "t", "p", "s", ":", "/", "/", "u", "s", "e", "r", ":", "p", "w", "@", "v", "i", "m", "e", "o", ".", "c", "o", "m", ":", "8", "0", "8", "0", "/", "1">>,
  <<"h", "t", "t", "p", "s", ":", "/", "/", "e", "x", "a", "m", "p", "l", "e", ".", "o", "r", "g", ":", "8", "0", "8", "0", "/">>,
  <<"h", "t", "t", "p", "s", ":", "/", "/", "e", "x", "a", "m", "p", "l", "e", ".", "o", "r", "g", "/", "y", "o", "u", "t", "u", "b", "e", ".", "c", "o", "m">>,
  <<"h", "t", "t", "p", "s", ":", "/", "/", "e", "x", "a", "m", "p", "l", "e", ".", "o", "r", "g", "?", "u", "=", "v", "i", "m", "e", "o", ".", "c", "o", "m">>,
  <<"h", "t", "t", "p", "s", ":", "/", "/", "e", "x", "a", "m", "p", "l", "e", ".", "o", "r", "g", "#", "r", "e", "d", "d", "i", "t", ".", "c", "o", "m">>,
  <<"h", "t", "t", "p", "s", ":", "/", "/", "[", "y", "o", "u", "t", "u", "b", "e", ".", "c", "o", "m", "/">>,
  <<"h", "t", "t", "p", "s", ":", "/", "/", "y", "o", "u", "t", "u", ".", "b", "e", "/", "a", "b", "c", ",">>,
  <<"h", "t", "t", "p", "s", ":", "/", "/", "w", "w", "w", ".", "y", "o", "u", "t", "u", "b", "e", ".", "c", "o", "m", "/", "w", "a", "t", "c", "h", "?", "v", "=", "d", "Q", "w", "4", "w", "9", "W", "g", "X", "c", "Q", "&", "l", "i", "s", "t", "=">> \o Repeat("P", PadLen) }

\* further strings a /download command can carry
OtherUrls == {
  <<"y", "o", "u", "t", "u", "b", "e", ".", "c", "o", "m", "/", "w", "a", "t", "c", "h">>,
  <<"/", "/", "t", "w", "i", "t", "c", "h", ".", "t", "v", "/", "x">>,
  <<"H", "T", "T", "P", "S", ":", "/", "/", "R", "U", "M", "B", "L", "E", ".", "C", "O", "M", "/", "v">>,
  <<"f", "t", "p", ":", "/", "/", "d", "a", "i", "l", "y", "m", "o", "t", "i", "o", "n", ".", "c", "o", "m", "/", "v">>,
  <<"y", "o", "u", "t", "u", "b", "e", ".", "c", "o", "m", ":", "8", "0", "/", "x">>,
  <<"h", "t", "t", "p", "s", ":", "/", "/">>,
  <<"h", "e", "l", "l", "o">> }

Prefixes == {<<>>, <<"c", "h", "e", "c", "k", " ", "t", "h", "i", "s", " ", "o", "u", "t", " ">>, <<"s", "e", "e", " ", "h", "t", "t", "p", ":", "/", "/", " ">>, <<"x">>, <<"h", "t", "t", "p", ":", "/", "/", "\n">>}

Suffixes == {<<>>, <<" ", "b", "y", "e">>, <<"\n", "h", "t", "t", "p", "s", ":", "/", "/", "x", ".", "c", "o", "m", "/", "a">>}

\* the texts of the messages handle_message receives
Texts ==
  {p \o u \o s : p \in Prefixes, u \in SchemeUrls, s \in Suffixes}
  \cup {<<"h", "e", "l", "l", "o", " ", "t", "h", "e", "r", "e">>, <<>>, <<"s", "e", "e", " ", "h", "t", "t", "p", ":", "/", "/">>, <<"h", "t", "t", "p", "s", ":", "/", "/", " ", "y", "o", "u", "t", "u", ".", "b", "e", "/", "a", "b", "c">>, <<"H", "T", "T", "P", "S", ":", "/", "/", "R", "U", "M", "B", "L", "E", ".", "C", "O", "M", "/", "v">>, <<"h", "t", "t", "p", ":", "/", "y", "o", "u", "t", "u", ".", "b", "e", "/", "a", "b", "c">>, <<"l", "o", "o", "k", ":", " ", "h", "t", "t", "p", "s", ":", "/", "/">>}

\* context.args of the /download commands
ArgLists ==
  {<<>>} \cup {<<u>> : u \in SchemeUrls \cup OtherUrls} \cup {<<<<"h", "t", "t", "p", "s", ":", "/", "/", "y", "o", "u", "t", "u", ".", "b", "e", "/", "a", "b", "c">>, <<"p", "l", "e", "a", "s", "e">>>>, <<<<"g", "e", "t">>, <<"h", "t", "t", "p", "s", ":", "/", "/", "y", "o", "u", "t", "u", ".", "b", "e", "/", "a", "b", "c">>>>}

CdnLink == <<"h", "t", "t", "p", "s", ":", "/", "/", "c", "d", "n", ".", "e", "x", "a", "m", "p", "l", "e", "/", "v", "i", "d", "e", "o", ".", "m", "p", "4">>

AltLink == <<"h", "t", "t", "p", "s", ":", "/", "/", "c", "d", "n", ".", "e", "x", "a", "m", "p", "l", "e", "/", "a", "l", "t", ".", "m", "p", "4">>

Body(text, doc) == [text |-> text, doc |-> doc]

\* response bodies: the text of the body and the document json.loads makes of it
Bodies == {
  Body(<<"{", "\"", "u", "r", "l", "\"", ":", " ", "\"", "h", "t", "t", "p", "s", ":", "/", "/", "c", "d", "n", ".", "e", "x", "a", "m", "p", "l", "e", "/", "v", "i", "d", "e", "o", ".", "m", "p", "4", "\"", "}">>, DictDoc((<<"u", "r", "l">> :> PyStr(CdnLink)))),
  Body(<<"{", "\"", "d", "o", "w", "n", "l", "o", "a", "d", "U", "r", "l", "\"", ":", " ", "\"", "h", "t", "t", "p", "s", ":", "/", "/", "c", "d", "n", ".", "e", "x", "a", "m", "p", "l", "e", "/", "a", "l", "t", ".", "m", "p", "4", "\"", "}">>, DictDoc((<<"d", "o", "w", "n", "l", "o", "a", "d", "U", "r", "l">> :> PyStr(AltLink)))),
  Body(<<"{", "\"", "v", "i", "d", "e", "o", "_", "u", "r", "l", "\"", ":", " ", "\"", "h", "t", "t", "p", "s", ":", "/", "/", "c", "d", "n", ".", "e", "x", "a", "m", "p", "l", "e", "/", "v", "i", "d", "e", "o", ".", "m", "p", "4", "\"", ",", " ", "\"", "d", "o", "w", "n", "l", "o", "a", "d", "U", "r", "l", "\"", ":", " ", "\"", "h", "t", "t", "p", "s", ":", "/", "/", "c", "d", "n", ".", "e", "x", "a", "m", "p", "l", "e", "/", "a", "l", "t", ".", "m", "p", "4", "\"", "}">>, DictDoc((<<"v", "i", "d", "e", "o", "_", "u", "r", "l">> :> PyStr(CdnLink)) @@ (<<"d", "o", "w", "n", "l", "o", "a", "d", "U", "r", "l">> :> PyStr(AltLink)))),
  Body(<<"{", "\"", "u", "r", "l", "\"", ":", " ", "\"", "\"", ",", " ", "\"", "v", "i", "d", "e", "o", "_", "u", "r", "l", "\"", ":", " ", "\"", "h", "t", "t", "p", "s", ":", "/", "/", "c", "d", "n", ".", "e", "x", "a", "m", "p", "l", "e", "/", "v", "i", "d", "e", "o", ".", "m", "p", "4", "\"", "}">>, DictDoc((<<"u", "r", "l">> :> PyStr(<<>>)) @@ (<<"v", "i", "d", "e", "o", "_", "u", "r", "l">> :> PyStr(CdnLink)))),
  Body(<<"{", "\"", "u", "r", "l", "\"", ":", " ", "n", "u", "l", "l", ",", " ", "\"", "d", "o", "w", "n", "l", "o", "a", "d", "U", "r", "l", "\"", ":", " ", "0", ",", " ", "\"", "v", "i", "d", "e", "o", "_", "u", "r", "l", "\"", ":", " ", "\"", "h", "t", "t", "p", "s", ":", "/", "/", "c", "d", "n", ".", "e", "x", "a", "m", "p", "l", "e", "/", "a", "l", "t", ".", "m", "p", "4", "\"", "}">>, DictDoc((<<"u", "r", "l">> :> None) @@ (<<"d", "o", "w", "n", "l", "o", "a", "d", "U", "r", "l">> :> PyInt(0)) @@ (<<"v", "i", "d", "e", "o", "_", "u", "r", "l">> :> PyStr(AltLink)))),
  Body(<<"{", "\"", "u", "r", "l", "\"", ":", " ", "\"", "\"", "}">>, DictDoc((<<"u", "r", "l">> :> PyStr(<<>>)))),
  Body(<<"{", "\"", "d", "o", "w", "n", "l", "o", "a", "d", "U", "r", "l", "\"", ":", " ", "n", "u", "l", "l", "}">>, DictDoc((<<"d", "o", "w", "n", "l", "o", "a", "d", "U", "r", "l">> :> None))),
  Body(<<"{", "\"", "u", "r", "l", "\"", ":", " ", "7", "}">>, DictDoc((<<"u", "r", "l">> :> PyInt(7)))),
  Body(<<"{", "\"", "s", "t", "a", "t", "u", "s", "\"", ":", " ", "\"", "o", "k", "\"", "}">>, DictDoc((<<"s", "t", "a", "t", "u", "s">> :> PyStr(<<"o", "k">>)))),
  Body(<<"{", "}">>, DictDoc(NoFields)),
  Body(<<"{", "\"", "s", "t", "a", "t", "u", "s", "\"", ":", " ", "\"">> \o Repeat("a", LongLen) \o <<"\"", "}">>, DictDoc((<<"s", "t", "a", "t", "u", "s">> :> PyStr(Repeat("a", LongLen))))),
  Body(<<"5">>, IntDoc(5)),
  Body(<<"n", "u", "l", "l">>, NoneDoc),
  Body(<<"\"", "a", "b", "c", "\"">>, StrDoc(<<"a", "b", "c">>)),
  Body(<<"\"", "m", "y", " ", "u", "r", "l", "\"">>, StrDoc(<<"m", "y", " ", "u", "r", "l">>)),
  Body(<<"[", "1", "]">>, ListDoc(<<PyInt(1)>>)),
  Body(<<"[", "\"", "u", "r", "l", "\"", "]">>, ListDoc(<<PyStr(<<"u", "r", "l">>)>>)),
  Body(<<"n", "o", "t", " ", "j", "s", "o", "n", " ", "a", "t", " ", "a", "l", "l">>, NotJson),
  Body(<<>>, NotJson),
  Body(Repeat("b", LongLen), NotJson) }

StatusCodes == {200, 201, 204, 302, 404, 503}

Response(status_code, body) == [status_code |-> status_code, text |-> body.text, doc |-> body.doc]

Responses == {Response(c, b) : c \in StatusCodes, b \in Bodies}

\* the exceptions requests.get raises: no connection, or no answer within the timeout
RequestErrors == {Exc("ConnectionError", <<"M", "a", "x", " ", "r", "e", "t", "r", "i", "e", "s", " ", "e", "x", "c", "e", "e", "d", "e", "d", " ", "w", "i", "t", "h", " ", "u", "r", "l", ":", " ", "/", "?", "u", "r", "l", "=">> \o Repeat("u", LongLen)), Exc("ReadTimeout", <<"R", "e", "a", "d", " ", "t", "i", "m", "e", "d", " ", "o", "u", "t", ".", " ", "(", "r", "e", "a", "d", " ", "t", "i", "m", "e", "o", "u", "t", "=", "3", "0", ")">>)}

(***************************************************************************)
(* State                                                                   *)
(***************************************************************************)

VARIABLES
  pc,        \* where the running handler is: "idle", "classify", "invoke", "interpret", "except", "done"
  update,    \* the update the handler was called with
  url,       \* the argument url of process_url
  platform,  \* the local platform of process_url
  response,  \* the local response of process_url
  exc,       \* the exception raised inside the try block of process_url
  escaped,   \* the exception that left the handler
  calls,     \* the requests.get calls of this invocation
  chat       \* the messages of the bot in the chat, the latest exchange

vars == <<pc, update, url, platform, response, exc, escaped, calls, chat>>

\* an Update: update.message is None for a callback query (has_message is FALSE)
Update(type, has_message, text, args, data) == [type |-> type, has_message |-> has_message, text |-> text, args |-> args, data |-> data]

NoUpdate == Update("none", FALSE, <<>>, <<>>, <<>>)

MessageUpdate(text) == Update("message", TRUE, text, <<>>, <<>>)

CommandUpdate(command, args) == Update(command, TRUE, <<>>, args, <<>>)

CallbackUpdate(data) == Update("callback_query", FALSE, <<>>, <<>>, data)

NoResponse == [status_code |-> 0, text |-> <<>>, doc |-> NotJson]

\* requests.get(API_URL, params={'url': url}, timeout=30)
Get(u) == [method |-> "GET", endpoint |-> API_URL, params |-> <<[name |-> "url", value |-> u]>>, timeout |-> TIMEOUT]

Init ==
  /\ pc = "idle"
  /\ update = NoUpdate
  /\ url = <<>>
  /\ platform = "none"
  /\ response = NoResponse
  /\ exc = NoExc
  /\ escaped = NoExc
  /\ calls = <<>>
  /\ chat = <<>>

(***************************************************************************)
(* process_url                                                             *)
(***************************************************************************)

\* the call of process_url(update, context, u) and its first statement, lines
\* 180-183: update.message.reply_text, outside the try block
process_url(upd, u) ==
  /\ url' = u
  /\ IF upd.has_message
     THEN /\ chat' = <<processing_message(u)>>
          /\ pc' = "classify"
          /\ escaped' = NoExc
     ELSE /\ escaped' = Exc("AttributeError", <<"'", "N", "o", "n", "e", "T", "y", "p", "e", "'", " ", "o", "b", "j", "e", "c", "t", " ", "h", "a", "s", " ", "n", "o", " ", "a", "t", "t", "r", "i", "b", "u", "t", "e", " ", "'", "r", "e", "p", "l", "y", "_", "t", "e", "x", "t", "'">>)
          /\ pc' = "done"
          /\ UNCHANGED chat
  /\ UNCHANGED <<platform, response, exc, calls>>

\* lines 186-192
Classify ==
  /\ pc = "classify"
  /\ IF urlparse_raises(url)
     THEN /\ exc' = Exc("ValueError", <<"I", "n", "v", "a", "l", "i", "d", " ", "I", "P", "v", "6", " ", "U", "R", "L">>)
          /\ pc' = "except"
          /\ UNCHANGED <<platform, chat>>
     ELSE /\ platform' = extract_url_info(url)
          /\ IF unsupported(platform')
             THEN /\ chat' = <<unsupported_message>>
                  /\ pc' = "done"
             ELSE /\ pc' = "invoke"
                  /\ UNCHANGED chat
          /\ UNCHANGED exc
  /\ UNCHANGED <<update, url, response, escaped, calls>>

\* lines 195-196: the API answers, or requests.get raises
Invoke ==
  /\ pc = "invoke"
  /\ calls' = Append(calls, Get(url))
  /\ \/ \E r \in Responses :
          /\ response' = r
          /\ pc' = "interpret"
          /\ UNCHANGED exc
     \/ \E e \in RequestErrors :
          /\ exc' = e
          /\ pc' = "except"
          /\ UNCHANGED response
  /\ UNCHANGED <<update, url, platform, escaped, chat>>

\* lines 198-232
Interpret ==
  /\ pc = "interpret"
  /\ LET r == interpret(response, platform, url)
     IN  IF r.exc # NoExc
         THEN /\ exc' = r.exc
              /\ pc' = "except"
              /\ UNCHANGED chat
         ELSE /\ chat' = IF r.reply = NoMsg THEN <<r.edit>> ELSE <<r.edit, r.reply>>
              /\ pc' = "done"
              /\ UNCHANGED exc
  /\ UNCHANGED <<update, url, platform, response, escaped, calls>>

\* lines 234-238
Except ==
  /\ pc = "except"
  /\ chat' = <<error_message(exc)>>
  /\ pc' = "done"
  /\ UNCHANGED <<update, url, platform, response, exc, escaped, calls>>

(***************************************************************************)
(* Handlers                                                                *)
(***************************************************************************)

\* a handler that sends or edits one message and returns
Replied(upd, messages) ==
  /\ update' = upd
  /\ chat' = messages
  /\ pc' = "done"
  /\ url' = <<>>
  /\ UNCHANGED <<platform, response, exc, escaped, calls>>

start ==
  /\ pc = "idle"
  /\ Replied(CommandUpdate("start", <<>>), <<Msg("welcome", <<>>, "", start_keyboard)>>)

help_command ==
  /\ pc = "idle"
  /\ Replied(CommandUpdate("help", <<>>), <<Msg("help", <<>>, "", <<>>)>>)

platforms_command ==
  /\ pc = "idle"
  /\ Replied(CommandUpdate("platforms", <<>>), <<Msg("platforms", <<>>, "", <<>>)>>)

download_command ==
  /\ pc = "idle"
  /\ \E args \in ArgLists :
       IF Len(args) > 0
       THEN /\ update' = CommandUpdate("download", args)
            /\ process_url(update', join(args))
       ELSE Replied(CommandUpdate("download", args), <<Msg("download_usage", <<>>, "", <<>>)>>)

handle_message ==
  /\ pc = "idle"
  /\ \E message_text \in Texts :
       LET urls == findall(message_text)
       IN  IF Len(urls) > 0
           THEN /\ update' = MessageUpdate(message_text)
                /\ process_url(update', urls[1])
           ELSE Replied(MessageUpdate(message_text), <<send_valid_url_message>>)

\* the callback data of the buttons the chat shows
Pressable ==
  UNION {{chat[i].markup[j].callback_data.s : j \in {k \in DOMAIN chat[i].markup : chat[i].markup[k].callback_data # None}} : i \in DOMAIN chat}

button_callback ==
  /\ pc = "idle"
  /\ \E data \in Pressable :
       IF startswith(data, <<"h", "e", "l", "p", "_">>)
       THEN Replied(CallbackUpdate(data), <<Msg("platform_support", <<>>, platform_name(Drop(data, 5)), <<>>)>>)
       ELSE IF data = <<"u", "s", "a", "g", "e", "_", "i", "n", "f", "o">>
       THEN Replied(CallbackUpdate(data), <<Msg("how_to_use", <<>>, "", <<>>)>>)
       ELSE IF data = <<"a", "l", "l", "_", "p", "l", "a", "t", "f", "o", "r", "m", "s">>
       THEN Replied(CallbackUpdate(data), <<Msg("all_platforms", <<>>, "", <<>>)>>)
       ELSE IF startswith(data, <<"r", "e", "t", "r", "y", "_">>)
       THEN /\ update' = CallbackUpdate(data)
            /\ process_url(update', Drop(data, 6))
       ELSE /\ update' = CallbackUpdate(data)
            /\ pc' = "done"
            /\ UNCHANGED <<url, platform, response, exc, escaped, calls, chat>>

\* the handler returns: its locals are gone, the chat stays
Return ==
  /\ pc = "done"
  /\ pc' = "idle"
  /\ update' = NoUpdate
  /\ url' = <<>>
  /\ platform' = "none"
  /\ response' = NoResponse
  /\ exc' = NoExc
  /\ escaped' = NoExc
  /\ calls' = <<>>
  /\ UNCHANGED chat

Next ==
  \/ start
  \/ help_command
  \/ platforms_command
  \/ download_command
  \/ handle_message
  \/ button_callback
  \/ Classify
  \/ Invoke
  \/ Interpret
  \/ Except
  \/ Return

Spec == Init /\ [][Next]_vars

(***************************************************************************)
(* Properties                                                              *)
(***************************************************************************)

\* the kinds of reply that present a link or a preview of the body to the user
ReadyKinds == {"download_ready", "content_found", "direct_download"}

FallbackKinds == {"content_found", "direct_download"}

\* the API answered in this invocation
Answered == response.status_code # 0

SuccessRange == 200..299

\* the buttons of all the messages of the chat, in order
RECURSIVE Choices(_)
Choices(messages) == IF Len(messages) = 0 THEN <<>> ELSE messages[1].markup \o Choices(Tail(messages))

\* the candidate fields in the documented order
FieldOrder == <<<<"u", "r", "l">>, <<"d", "o", "w", "n", "l", "o", "a", "d", "U", "r", "l">>, <<"v", "i", "d", "e", "o", "_", "u", "r", "l">>>>

\* the candidate fields a document holds, and those it holds with a non-empty value
PresentFields(doc) == {i \in 1..3 : FieldOrder[i] \in DOMAIN doc.fields}

NonEmptyFields(doc) == {i \in PresentFields(doc) : truthy(doc.fields[FieldOrder[i]])}

FirstOf(S) == CHOOSE i \in S : \A j \in S : i <= j

\* process_url ran in this invocation
PipelineRan ==
  \/ update.type = "message" /\ chat # <<send_valid_url_message>>
  \/ update.type = "download" /\ Len(update.args) > 0
  \/ update.type = "callback_query" /\ startswith(update.data, <<"r", "e", "t", "r", "y", "_">>)

KnownPlatform(u) == ~urlparse_raises(u) /\ extract_url_info(u) # "unknown"

\* C1: every API response with a 2xx status, whatever its body, ends in a
\* Ready reply (a link or a preview of the body), never in the error reply.
C1_SuccessStatusIsReady ==
  (pc = "done" /\ response.status_code \in SuccessRange) => (Len(chat) > 0 /\ chat[1].kind \in ReadyKinds)

\* the link a Ready reply is about: the selected candidate value, or the preview of the body
InterpretedLink == IF chat[1].kind = "download_ready" THEN download_url(response.doc) ELSE PyStr(chat[Len(chat)].arg)

C3_RetryReachesApi ==
  (pc = "done" /\ update.type = "callback_query" /\ startswith(update.data, <<"r", "e", "t", "r", "y", "_">>)) =>
    /\ <<"r", "e", "t", "r", "y", "_">> \o url = update.data
    /\ escaped = NoExc
    /\ calls = <<Get(url)>>

\* C4: for a body that is an object, the link is the first candidate field
\* (url, downloadUrl, video_url) that is present and non-empty; no DirectLink
\* is made from an absent or empty value, the raw body is shown instead.
C4_LinkIsFirstNonEmptyCandidate ==
  (pc = "done" /\ response.status_code = 200 /\ response.doc.t = "dict") =>
    LET T == NonEmptyFields(response.doc)
        c == Choices(chat)
    IN  /\ T # {} => (chat[1].kind = "download_ready" /\ c[1].url = response.doc.fields[FieldOrder[FirstOf(T)]])
        /\ \A i \in 1..Len(c) : c[i].callback_data = None => truthy(c[i].url)
        /\ T = {} => chat[1].kind \in FallbackKinds

\* C5: every invocation of the pipeline ends with a reply, and no exception
\* leaves the handler.
C5_NoExceptionEscapes ==
  (pc = "done" /\ PipelineRan) => (escaped = NoExc /\ Len(chat) > 0)

\* C6: a URL that classifies as unknown gets the unsupported-platform reply
\* without choices and no API call; an API call is made only for the URL that
\* was classified, and classified to a known platform.
C6_UnknownShortCircuits ==
  /\ (pc = "done" /\ platform = "unknown") =>
       (chat = <<[kind |-> "unsupported_platform", arg |-> <<>>, label |-> "", markup |-> <<>>]>> /\ calls = <<>>)
  /\ platform # "none" => (platform = extract_url_info(url) /\ ~urlparse_raises(url))
  /\ calls # <<>> => (platform \notin {"none", "unknown"} /\ \A i \in 1..Len(calls) : calls[i].params[1].value = url)

\* scenario F: the unknown host, short-circuited
C6_Witness ==
  /\ pc = "done" /\ platform = "unknown" /\ calls = <<>>
  /\ url = <<"h", "t", "t", "p", "s", ":", "/", "/", "u", "n", "k", "n", "o", "w", "n", "-", "v", "i", "d", "e", "o", "-", "s", "i", "t", "e", ".", "e", "x", "a", "m", "p", "l", "e", "/", "v">>

\* C7: a response with a status outside the success range gives the error
\* reply that names the status code, carries no choices and shows nothing of
\* the body.
C7_NonSuccessStatusFails ==
  (pc = "done" /\ Answered /\ response.status_code \notin SuccessRange) =>
    chat = <<[kind |-> "error", arg |-> <<"A", "P", "I", " ", "r", "e", "t", "u", "r", "n", "e", "d", " ", "s", "t", "a", "t", "u", "s", " ">> \o str(response.status_code), label |-> "", markup |-> <<>>]>>

\* scenario E: status 503
C7_Witness ==
  /\ pc = "done" /\ response.status_code = 503 /\ response.text = <<"{", "\"", "u", "r", "l", "\"", ":", " ", "\"", "h", "t", "t", "p", "s", ":", "/", "/", "c", "d", "n", ".", "e", "x", "a", "m", "p", "l", "e", "/", "v", "i", "d", "e", "o", ".", "m", "p", "4", "\"", "}">>
  /\ chat[1].kind = "error"

\* the host of a URL: its authority without the user-info and the port
Host(u) ==
  LET n == netloc(u)
      ats == {i \in 1..Len(n) : n[i] = "@"}
      h == IF ats = {} THEN n ELSE Drop(n, CHOOSE i \in ats : \A j \in ats : j <= i)
      c == find(h, ":")
  IN  IF c = 0 THEN h ELSE Take(h, c - 1)

\* C8: the platform is that of the first table entry whose pattern is a
\* substring of the lower-cased host, unknown when there is none; user-info,
\* port, path and query do not count.
C8_HostAloneDecides ==
  platform # "none" => platform = domain_loop(lower(Host(url)), 1)

\* a URL token starts at i: http:// or https:// and then a character that is not whitespace
SchemeAt(text, i) == Slice(text, i, i + 6) = <<"h", "t", "t", "p", ":", "/", "/">> \/ Slice(text, i, i + 7) = <<"h", "t", "t", "p", "s", ":", "/", "/">>

SchemeLen(text, i) == IF Slice(text, i, i + 7) = <<"h", "t", "t", "p", "s", ":", "/", "/">> THEN 8 ELSE 7

UrlStart(text, i) == SchemeAt(text, i) /\ i + SchemeLen(text, i) <= Len(text) /\ text[i + SchemeLen(text, i)] \notin Whitespace

\* the end of the whitespace-free token that starts at i
TokenEnd(text, i) == CHOOSE j \in i..Len(text) : (\A k \in i..j : text[k] \notin Whitespace) /\ (j = Len(text) \/ text[j + 1] \in Whitespace)

\* the message handler answered "send a valid URL" and nothing else happened
NoUrlReply ==
  /\ chat = <<[kind |-> "send_valid_url", arg |-> <<>>, label |-> "", markup |-> <<>>]>>
  /\ pc = "done" /\ platform = "none" /\ calls = <<>>

\* C9 as stated: whenever the text contains http:// or https://, the pipeline
\* gets the token at the leftmost such place; otherwise the send-a-valid-URL
\* reply, no classification and no API call.
C9_AnySchemeSubstringIsExtracted ==
  (update.type = "message" /\ pc # "idle") =>
    LET text == update.text
        S == {i \in 1..Len(text) : SchemeAt(text, i)}
    IN  IF S # {} THEN PipelineRan ELSE NoUrlReply

\* C9 as amended: whenever the text contains http:// or https:// directly
\* followed by a character that is not whitespace, the pipeline gets the
\* leftmost such token, up to the next whitespace, unmodified; otherwise the
\* send-a-valid-URL reply, no classification and no API call.
C9_LeftmostUrlTokenIsExtracted ==
  (update.type = "message" /\ pc # "idle") =>
    LET text == update.text
        S == {i \in 1..Len(text) : UrlStart(text, i)}
    IN  IF S # {}
        THEN PipelineRan /\ url = SubSeq(text, FirstOf(S), TokenEnd(text, FirstOf(S)))
        ELSE NoUrlReply

\* a message with a bare scheme and two URLs: the first URL went to the pipeline
C9_Witness ==
  /\ update.type = "message" /\ pc = "done"
  /\ update.text = <<"s", "e", "e", " ", "h", "t", "t", "p", ":", "/", "/", " ", "h", "t", "t", "p", "s", ":", "/", "/", "y", "o", "u", "t", "u", ".", "b", "e", "/", "a", "b", "c", "\n", "h", "t", "t", "p", "s", ":", "/", "/", "x", ".", "c", "o", "m", "/", "a">>
  /\ url = <<"h", "t", "t", "p", "s", ":", "/", "/", "y", "o", "u", "t", "u", ".", "b", "e", "/", "a", "b", "c">>

\* C10: an invocation for a URL of a known platform issues exactly one GET to
\* the fixed endpoint with the URL as its only parameter, and never a second.
C10_ExactlyOneGet ==
  /\ Len(calls) <= 1
  /\ \A i \in 1..Len(calls) : calls[i].method = "GET" /\ calls[i].endpoint = API_URL /\ calls[i].params = <<[name |-> "url", value |-> url]>>
  /\ (pc = "done" /\ PipelineRan /\ KnownPlatform(url)) => Len(calls) = 1

=============================================================================
